---------------------------- MODULE Spec2Model ----------------------------
(***************************************************************************)
(* Model of update_all_stock_github.py: the batch loop of main(), the      *)
(* per-batch pipeline process_sku_batch() and the two remote calls         *)
(* get_variants_bulk() and update_inventory_bulk().                        *)
(*                                                                         *)
(* Numbers.  The CSV quantities are Python floats; they are modelled as    *)
(* integer numerators over the fixed denominator Den (Den = 2: halves).    *)
(* The remote quantities are integers (whole units).  A Python None is     *)
(* the empty tuple <<>> and a present number v is <<v>> for nullable       *)
(* numeric fields, and the string "None" for nullable text fields.         *)
(***************************************************************************)
EXTENDS Integers, Sequences, FiniteSets, TLC

\* ------------------------------------------------------------------ bounds
Den == 2
MaxBatch == 2
MaxVariants == 2
MaxRows == 40

\* ------------------------------------------------------- program constants
BATCH_SIZE == 35
MaxAttempts == 5

\* Product codes are numbered; 0 stands for a blank or missing code.
SKUS == {1, 2}

None == <<>>
Some(v) == <<v>>
NoneStr == "None"

\* The fields of `product` the resolver's query selects.
ProductSelection == {"id", "title", "handle"}

\* CSV quantities (numerators over Den): negative ones and whole positive ones.
CsvStockVals == {-Den, Den}
CsvAvailVals == {-1, Den}

\* Remote available quantities (whole units); 1 unit equals the CSV value Den.
RemoteAvailVals == {0, 1}
CsvMoveVals == {0, Den}

StockRecords ==
    [current_stock : CsvStockVals,
     expected_arrival : CsvMoveVals,
     expected_shipment : {0},
     available_for_sale : CsvAvailVals]

Title(j) == <<"T1", "T2", "T3", "T4">>[j]

\* One variant of the remote catalogue, with everything the platform knows.
ShopVariant(j, sku, archived, available) ==
    [id |-> j,
     sku |-> sku,
     product |-> [id |-> j, title |-> Title(j), handle |-> j,
                  archived |-> archived],
     inventoryItem |-> j,
     available |-> available,
     committed |-> 0]

\* A variant's product is archived or active; the available quantity of an
\* archived one is never read, so it is left at 0.
VariantStates == {<<TRUE, 0>>} \cup ({FALSE} \X RemoteAvailVals)

\* The catalogues of n variants: variant j sits on product j.
RECURSIVE Catalogues(_)
Catalogues(n) ==
    IF n = 0 THEN {<<>>}
    ELSE {Append(c, ShopVariant(n, s, st[1], st[2])) :
            c \in Catalogues(n - 1), s \in SKUS, st \in VariantStates}

AllCatalogues == UNION {Catalogues(n) : n \in 0..MaxVariants}

\* All batches main() can hand over: 1..MaxBatch SKUs (a SKU may repeat when
\* two rows of the chunk carry it) and one stock record per distinct SKU.
\* Product codes are interchangeable, so the first one of a batch is code 1.
BatchSkus == {b \in UNION {[1..n -> SKUS] : n \in 1..MaxBatch} : b[1] = 1}

Range(s) == {s[i] : i \in DOMAIN s}

Min(a, b) == IF a < b THEN a ELSE b

Max(a, b) == IF a > b THEN a ELSE b

VARIABLES
    skus,             \* process_sku_batch: the batch's SKU list
    stock_data_dict,  \* process_sku_batch: SKU -> stock record
    shop,             \* the remote catalogue
    pc,               \* position in process_sku_batch
    attempt,          \* failed attempts of the remote call in progress
    waits,            \* the sleeps between the attempts of that call
    failure,          \* what made its last attempt raise
    resolve_status,   \* how the resolve call ended
    variants,         \* what get_variants_bulk returned
    updates,          \* process_sku_batch: the update requests
    results,          \* process_sku_batch: the result records
    mutation,         \* the sub-mutations of the bulk mutation sent
    update_status,    \* how the bulk update call ended
    update_response,  \* per alias, what the status-200 response held
    df,               \* main: the rows of the snapshot
    batch_start,      \* main: the loop variable
    mpc,              \* main: position
    sleeps,           \* main: the pacing delays taken so far
    resolver_calls,   \* main: the SKU list of every process_sku_batch call
    main_results      \* main: the accumulated result records

batchVars == <<skus, stock_data_dict, shop, pc, attempt, waits, failure,
               resolve_status,
               variants, updates, results, mutation, update_status,
               update_response>>
mainVars == <<df, batch_start, mpc, sleeps, resolver_calls, main_results>>
vars == <<batchVars, mainVars>>


\* ------------------------------------------------------------- retry layer

\* Parameters of wait_exponential(multiplier=1, min=4, max=60).
WAIT_MULTIPLIER == 1
WAIT_MIN == 4
WAIT_MAX == 60

StopAfterAttemptSix(attempt_number) == attempt_number >= MaxAttempts + 1

\* stop_after_attempt(5): after attempt number attempt_number has raised,
\* no further attempt is made.
StopAfterAttempt(attempt_number) == attempt_number >= MaxAttempts

\* wait_exponential: the sleep after attempt number attempt_number raised is
\* multiplier * 2^(attempt_number - 1), at most max and at least min.
WaitExponential(attempt_number) ==
    Max(WAIT_MIN, Min(WAIT_MULTIPLIER * 2 ^ (attempt_number - 1), WAIT_MAX))

\* What makes one attempt of a decorated function raise: session.post gave
\* up (a network error, or 429/500/502/503/504 after the transport's own
\* retries), or the status-200 body is no JSON or holds no data object.
FailureCauses == {"transient", "malformed"}

\* The retry state once the decorated call has ended.
RetryIdle ==
    /\ attempt' = 0
    /\ waits' = <<>>
    /\ failure' = "none"

\* One attempt raised and the stop condition does not hold: tenacity sleeps
\* and calls the function again.
RetryAgain(cause) ==
    /\ attempt' = attempt + 1
    /\ waits' = Append(waits, WaitExponential(attempt + 1))
    /\ failure' = cause

\* ------------------------------------------------------------ get_variants_bulk

\* The node the query returns for one variant: of `product` only the selected
\* fields, and the quantities at the target location.
Node(v) ==
    [id |-> v.id,
     sku |-> v.sku,
     product |-> [f \in ProductSelection |-> v.product[f]],
     inventoryItem |-> v.inventoryItem,
     available |-> v.available,
     committed |-> v.committed]

RECURSIVE SelectSeq2(_, _)
\* The members of sequence s whose sku is in set q, in order.
SelectSeq2(s, q) ==
    IF s = <<>> THEN <<>>
    ELSE IF Head(s).sku \in q
         THEN <<Head(s)>> \o SelectSeq2(Tail(s), q)
         ELSE SelectSeq2(Tail(s), q)

\* The edges of a status-200 response to the OR-query over `batch`.
Edges(catalogue, batch) ==
    LET hit == SelectSeq2(catalogue, Range(batch))
    IN  [i \in 1..Len(hit) |-> Node(hit[i])]

\* What get_variants_bulk returns for a completed HTTP exchange:
\* the nodes when the status is 200 and there are edges, None otherwise.
GetVariantsReturn(status, edges) ==
    IF status = 200 /\ edges # <<>> THEN Some(edges) ELSE None

\* ------------------------------------------------------------ result records

BaseRecord(sku, stock, status, message) ==
    [sku |-> sku,
     status |-> status,
     message |-> message,
     csv_stock |-> stock[sku].current_stock,
     csv_available |-> stock[sku].available_for_sale,
     shopify_available |-> None,
     shopify_committed |-> None,
     new_available |-> None,
     product_title |-> NoneStr,
     variant_id |-> None,
     product_handle |-> None,
     product_id |-> None,
     multiple_variants |-> FALSE,
     variant_count |-> 0,
     variant_products |-> <<>>]

NotFoundRecord(sku, stock) ==
    BaseRecord(sku, stock, "error", "SKU not found in Shopify")

ExceptionRecord(sku, stock, e) ==
    BaseRecord(sku, stock, "error", e)

ArchivedRecord(variant, stock) ==
    [BaseRecord(variant.sku, stock, "skipped", "Product is archived in Shopify")
       EXCEPT !.product_title = variant.product.title,
              !.variant_id = Some(variant.id),
              !.product_handle = Some(variant.product.handle),
              !.product_id = Some(variant.product.id)]

SkipRecord(variant, stock, message, new_available) ==
    [BaseRecord(variant.sku, stock, "skipped", message)
       EXCEPT !.shopify_available = Some(variant.available),
              !.shopify_committed = Some(variant.committed),
              !.new_available = Some(new_available),
              !.product_title = variant.product.title,
              !.variant_id = Some(variant.id),
              !.product_handle = Some(variant.product.handle),
              !.product_id = Some(variant.product.id)]

UpdateRequest(variant, stock, new_available) ==
    [sku |-> variant.sku,
     inventory_item_id |-> variant.inventoryItem,
     available |-> new_available,
     product_title |-> variant.product.title,
     variant_id |-> variant.id,
     current_available |-> variant.available,
     current_committed |-> variant.committed,
     csv_stock |-> stock[variant.sku].current_stock,
     csv_available |-> stock[variant.sku].available_for_sale,
     product_handle |-> variant.product.handle,
     product_id |-> variant.product.id]

\* ------------------------------------------------------- reconciliation policy

NewAvailableNoClamp(stock_data) ==
    IF stock_data.expected_arrival = stock_data.expected_shipment
    THEN stock_data.current_stock
    ELSE stock_data.available_for_sale

\* The candidate quantity (a numerator over Den).
NewAvailable(stock_data) ==
    LET new_available ==
            IF stock_data.expected_arrival = stock_data.expected_shipment
            THEN stock_data.current_stock
            ELSE stock_data.available_for_sale
    IN  IF new_available < 0 THEN 0 ELSE new_available

\* Python's == between the remote integer and the CSV float.
SameQuantity(units, numerator) == units * Den = numerator

BothZero(stock_data, variant) ==
    stock_data.available_for_sale <= 0 /\ variant.available = 0

\* One pass of the loop over the resolved variants.  acc carries the loop's
\* locals; raised/exc say whether the pass raised and what.
VariantStep(variant, stock, acc) ==
    LET sku == variant.sku
        acc1 == [acc EXCEPT !.found_skus = @ \cup {sku}]
    IN  IF "archived" \notin DOMAIN variant.product
        THEN [acc1 EXCEPT !.raised = TRUE, !.exc = "'archived'"]
        ELSE IF variant.product.archived
        THEN IF sku \notin DOMAIN stock
             THEN [acc1 EXCEPT !.raised = TRUE, !.exc = "KeyError(sku)"]
             ELSE [acc1 EXCEPT !.results =
                       Append(@, ArchivedRecord(variant, stock))]
        ELSE IF sku \notin DOMAIN stock
        THEN acc1
        ELSE LET stock_data == stock[sku]
                 new_available == NewAvailable(stock_data)
             IN  IF BothZero(stock_data, variant)
                 THEN [acc1 EXCEPT !.results =
                           Append(@, SkipRecord(variant, stock,
                               "Both CSV and Shopify show 0 stock",
                               new_available))]
                 ELSE IF SameQuantity(variant.available, new_available)
                 THEN [acc1 EXCEPT !.results =
                           Append(@, SkipRecord(variant, stock,
                               "Shopify already matches calculated value",
                               new_available))]
                 ELSE [acc1 EXCEPT !.updates =
                           Append(@, UpdateRequest(variant, stock,
                                                   new_available))]

RECURSIVE VariantLoop(_, _, _)
VariantLoop(vs, stock, acc) ==
    IF vs = <<>> \/ acc.raised THEN acc
    ELSE VariantLoop(Tail(vs), stock, VariantStep(Head(vs), stock, acc))

RECURSIVE NotFoundLoop(_, _, _)
\* A not-found record for every entry of the batch no variant carried.
NotFoundLoop(batch, stock, found_skus) ==
    IF batch = <<>> THEN <<>>
    ELSE (IF Head(batch) \notin found_skus
          THEN <<NotFoundRecord(Head(batch), stock)>> ELSE <<>>)
         \o NotFoundLoop(Tail(batch), stock, found_skus)

AllNotFound(batch, stock) ==
    [i \in 1..Len(batch) |-> NotFoundRecord(batch[i], stock)]

AllException(batch, stock, e) ==
    [i \in 1..Len(batch) |-> ExceptionRecord(batch[i], stock, e)]

\* The variants of the response that carry `sku`, in response order.
SkuVariants(vs, sku) == SelectSeq2(vs, {sku})

RECURSIVE FirstIndex(_, _, _)
\* The index of the first record of rs, from i on, whose sku is `sku`; 0 if none.
FirstIndex(rs, sku, i) ==
    IF i > Len(rs) THEN 0
    ELSE IF rs[i].sku = sku THEN i
    ELSE FirstIndex(rs, sku, i + 1)

\* The multi-variant annotation: for every SKU with more than one variant,
\* the first result record of that SKU is flagged.
Annotate(rs, vs) ==
    [i \in 1..Len(rs) |->
        LET sv == SkuVariants(vs, rs[i].sku)
        IN  IF Len(sv) > 1 /\ FirstIndex(rs, rs[i].sku, 1) = i
            THEN [rs[i] EXCEPT
                    !.multiple_variants = TRUE,
                    !.variant_count = Len(sv),
                    !.variant_products =
                        [k \in 1..Len(sv) |-> sv[k].product.title]]
            ELSE rs[i]]

\* -------------------------------------------------------- update_inventory_bulk

\* Python 3's round(): to the nearest integer, ties to the even one.
Round(numerator) ==
    LET q == numerator \div Den
        r == numerator % Den
    IN  IF 2 * r < Den THEN q
        ELSE IF 2 * r > Den THEN q + 1
        ELSE IF q % 2 = 0 THEN q ELSE q + 1

BuildMutationOneAlias(us) ==
    [i \in 1..Len(us) |->
        [alias |-> 0,
         inventoryItemId |-> us[i].inventory_item_id,
         quantity |-> Round(us[i].available)]]

\* The sub-mutations of the bulk mutation, each under its positional alias.
BuildMutation(us) ==
    [i \in 1..Len(us) |->
        [alias |-> i - 1,
         inventoryItemId |-> us[i].inventory_item_id,
         quantity |-> Round(us[i].available)]]

\* What the data of a status-200 response can hold under one alias: a
\* sub-result without field-level errors, one with them, or no entry.
EntryKinds == {"ok", "userErrors", "absent"}

\* data.get(alias, {}).get('userErrors', []) is non-empty.
HasUserErrors(entry) == entry = "userErrors"

UpdateResultIgnoresErrors(update, entry) ==
    [sku |-> update.sku,
     status |-> "updated",
     message |-> "Successfully updated",
     product_title |-> update.product_title,
     variant_id |-> update.variant_id]

\* The record update_inventory_bulk builds for one request.
UpdateResult(update, entry) ==
    [sku |-> update.sku,
     status |-> IF HasUserErrors(entry) THEN "error" ELSE "updated",
     message |-> IF HasUserErrors(entry) THEN "userErrors"
                 ELSE "Successfully updated",
     product_title |-> update.product_title,
     variant_id |-> update.variant_id]

\* What update_inventory_bulk returns for a status-200 response.
UpdateResults(us, response) ==
    [i \in 1..Len(us) |-> UpdateResult(us[i], response[i])]

RECURSIVE FirstUpdate(_, _, _)
\* next(u for u in updates if u.sku == result.sku and
\*      u.variant_id == result.variant_id): its index, 0 if none.
FirstUpdate(us, result, i) ==
    IF i > Len(us) THEN 0
    ELSE IF us[i].sku = result.sku /\ us[i].variant_id = result.variant_id
         THEN i
         ELSE FirstUpdate(us, result, i + 1)

\* One record of update_results after process_sku_batch merged the
\* originating request into it.
Merged(result, us) ==
    LET k == FirstUpdate(us, result, 1)
    IN  [sku |-> result.sku,
         status |-> result.status,
         message |-> result.message,
         csv_stock |-> us[k].csv_stock,
         csv_available |-> us[k].csv_available,
         shopify_available |-> Some(us[k].current_available),
         shopify_committed |-> Some(us[k].current_committed),
         new_available |-> Some(us[k].available),
         product_title |-> result.product_title,
         variant_id |-> Some(result.variant_id),
         product_handle |-> Some(us[k].product_handle),
         product_id |-> Some(us[k].product_id),
         multiple_variants |-> FALSE,
         variant_count |-> 0,
         variant_products |-> <<>>]

MergeAll(update_results, us) ==
    [i \in 1..Len(update_results) |-> Merged(update_results[i], us)]

\* ------------------------------------------------- process_sku_batch: the steps

FullNode(v) == [Node(v) EXCEPT !.product = v.product]

\* main() is not running: process_sku_batch is driven on its own.
MainIdle ==
    /\ df = <<>>
    /\ batch_start = 0
    /\ mpc = "idle"
    /\ sleeps = 0
    /\ resolver_calls = <<>>
    /\ main_results = <<>>

\* A call process_sku_batch(skus, stock_data_dict) against a remote catalogue.
Init ==
    /\ skus \in BatchSkus
    /\ stock_data_dict \in [Range(skus) -> StockRecords]
    /\ shop \in AllCatalogues
    /\ pc = "resolve"
    /\ attempt = 0
    /\ waits = <<>>
    /\ failure = "none"
    /\ resolve_status = "pending"
    /\ variants = None
    /\ updates = <<>>
    /\ results = <<>>
    /\ mutation = <<>>
    /\ update_status = "none"
    /\ update_response = <<>>
    /\ MainIdle

\* get_variants_bulk, one attempt that raises (the transport gave up, the body
\* is no JSON, ...): tenacity tries again, and after the last attempt its
\* RetryError reaches the except clause of process_sku_batch.
ResolveRaises ==
    /\ pc = "resolve"
    /\ IF ~StopAfterAttempt(attempt + 1)
       THEN /\ \E cause \in FailureCauses : RetryAgain(cause)
            /\ UNCHANGED <<pc, resolve_status, results>>
       ELSE /\ RetryIdle
            /\ resolve_status' = "raised"
            /\ results' = AllException(skus, stock_data_dict, "RetryError")
            /\ pc' = "done"
    /\ UNCHANGED <<skus, stock_data_dict, shop, variants, updates, mutation,
                   update_status, update_response, mainVars>>

\* get_variants_bulk, an attempt answered with a status other than 200.
ResolveHttpError ==
    /\ pc = "resolve"
    /\ RetryIdle
    /\ variants' = GetVariantsReturn(401, <<>>)
    /\ resolve_status' = "http_error"
    /\ pc' = "decide"
    /\ UNCHANGED <<skus, stock_data_dict, shop, updates, results, mutation,
                   update_status, update_response, mainVars>>

\* get_variants_bulk, an attempt answered with status 200.
ResolveOk ==
    /\ pc = "resolve"
    /\ RetryIdle
    /\ variants' = GetVariantsReturn(200, Edges(shop, skus))
    /\ resolve_status' = IF Edges(shop, skus) = <<>> THEN "empty" ELSE "matched"
    /\ pc' = "decide"
    /\ UNCHANGED <<skus, stock_data_dict, shop, updates, results, mutation,
                   update_status, update_response, mainVars>>

EmptyAcc ==
    [raised |-> FALSE, exc |-> "", updates |-> <<>>, results |-> <<>>,
     found_skus |-> {}]

\* The loops of process_sku_batch over a non-empty resolver result.
Decided(vs, batch, stock) ==
    LET acc == VariantLoop(vs, stock, EmptyAcc)
    IN  IF acc.raised THEN acc
        ELSE [acc EXCEPT !.results =
                  @ \o NotFoundLoop(batch, stock, acc.found_skus)]

\* process_sku_batch from the return of get_variants_bulk to either its
\* return or its call of update_inventory_bulk.
Decide ==
    /\ pc = "decide"
    /\ IF variants = None
       THEN /\ results' = AllNotFound(skus, stock_data_dict)
            /\ pc' = "done"
            /\ UNCHANGED <<updates, attempt, waits, failure>>
       ELSE LET d == Decided(variants[1], skus, stock_data_dict)
            IN  IF d.raised
                THEN /\ results' = AllException(skus, stock_data_dict, d.exc)
                     /\ pc' = "done"
                     /\ UNCHANGED <<updates, attempt, waits, failure>>
                ELSE IF d.updates = <<>>
                THEN /\ results' = Annotate(d.results, variants[1])
                     /\ pc' = "done"
                     /\ UNCHANGED <<updates, attempt, waits, failure>>
                ELSE /\ results' = d.results
                     /\ updates' = d.updates
                     /\ UNCHANGED <<attempt, waits, failure>>
                     /\ pc' = "update"
    /\ UNCHANGED <<skus, stock_data_dict, shop, resolve_status, variants,
                   mutation, update_status, update_response, mainVars>>

\* The highest index of a sub-mutation of m that was applied to inventory
\* item `item`, 0 if there is none.
LastApplied(m, applied, item) ==
    LET hits == {i \in DOMAIN m : applied[i] /\ m[i].inventoryItemId = item}
    IN  IF hits = {} THEN 0 ELSE CHOOSE i \in hits : \A j \in hits : j <= i

ApplyMutationAsDelta(catalogue, m, applied) ==
    [k \in DOMAIN catalogue |->
        LET i == LastApplied(m, applied, catalogue[k].inventoryItem)
        IN  IF i = 0 THEN catalogue[k]
            ELSE [catalogue[k] EXCEPT !.available = @ + m[i].quantity]]

\* The remote catalogue after the sub-mutations of m marked in `applied`
\* took effect: inventorySetOnHandQuantities sets the on-hand quantity of
\* the item at the location, and available is on-hand minus committed.
ApplyMutation(catalogue, m, applied) ==
    [k \in DOMAIN catalogue |->
        LET i == LastApplied(m, applied, catalogue[k].inventoryItem)
        IN  IF i = 0 THEN catalogue[k]
            ELSE [catalogue[k] EXCEPT
                     !.available = m[i].quantity - catalogue[k].committed]]

\* The sub-mutations a status-200 response reports as done without errors.
AppliedBy(response) == [i \in DOMAIN response |-> response[i] = "ok"]

\* An attempt that raises leaves the remote catalogue untouched, or, when
\* the request went through and only the response was lost, with the whole
\* mutation applied.
LostResponseOutcomes(catalogue, m) ==
    {catalogue, ApplyMutation(catalogue, m, [i \in DOMAIN m |-> TRUE])}

\* update_inventory_bulk, one attempt that raises.
UpdateRaises ==
    /\ pc = "update"
    /\ mutation' = BuildMutation(updates)
    /\ IF ~StopAfterAttempt(attempt + 1)
       THEN /\ \E cause \in FailureCauses : RetryAgain(cause)
            /\ UNCHANGED <<pc, update_status, results>>
       ELSE /\ RetryIdle
            /\ update_status' = "raised"
            /\ results' = AllException(skus, stock_data_dict, "RetryError")
            /\ pc' = "done"
    /\ shop' \in LostResponseOutcomes(shop, BuildMutation(updates))
    /\ UNCHANGED <<skus, stock_data_dict, resolve_status, variants,
                   updates, update_response, mainVars>>

\* update_inventory_bulk, an attempt answered with a status other than 200:
\* it returns None and process_sku_batch goes on with what it has.
UpdateHttpError ==
    /\ pc = "update"
    /\ mutation' = BuildMutation(updates)
    /\ RetryIdle
    /\ update_status' = "http_error"
    /\ results' = Annotate(results, variants[1])
    /\ pc' = "done"
    /\ UNCHANGED <<skus, stock_data_dict, shop, resolve_status, variants,
                   updates, update_response, mainVars>>

\* update_inventory_bulk, an attempt answered with status 200: one record per
\* request, merged with its request and appended to the results.
UpdateOk ==
    /\ pc = "update"
    /\ mutation' = BuildMutation(updates)
    /\ RetryIdle
    /\ \E response \in [1..Len(updates) -> EntryKinds] :
          /\ update_status' = "ok"
          /\ update_response' = response
          /\ shop' = ApplyMutation(shop, BuildMutation(updates),
                                   AppliedBy(response))
          /\ results' = Annotate(
                 results \o MergeAll(UpdateResults(updates, response), updates),
                 variants[1])
    /\ pc' = "done"
    /\ UNCHANGED <<skus, stock_data_dict, resolve_status, variants,
                   updates, mainVars>>

\* process_sku_batch against the remote platform.
Next ==
    \/ ResolveRaises
    \/ ResolveHttpError
    \/ ResolveOk
    \/ Decide

Spec == Init /\ [][Next]_vars

\* process_sku_batch from a resolver result whose nodes carry the `archived`
\* flag of their product (the InventoryVariant the policy is written for).
InitPolicy ==
    /\ skus \in BatchSkus
    /\ stock_data_dict \in [Range(skus) -> StockRecords]
    /\ shop = <<>>
    /\ pc = "decide"
    /\ attempt = 0
    /\ waits = <<>>
    /\ failure = "none"
    /\ resolve_status = "matched"
    /\ \E c \in AllCatalogues \ {<<>>} :
          /\ \A i \in 1..Len(c) : c[i].sku \in Range(skus)
          /\ variants = Some([i \in 1..Len(c) |-> FullNode(c[i])])
    /\ updates = <<>>
    /\ results = <<>>
    /\ mutation = <<>>
    /\ update_status = "none"
    /\ update_response = <<>>
    /\ MainIdle

NextPolicy ==
    \/ Decide
    \/ UpdateRaises
    \/ UpdateHttpError
    \/ UpdateOk

SpecPolicy == InitPolicy /\ [][NextPolicy]_vars

\* Both remote calls of process_sku_batch: the resolve call of the pipeline,
\* and the bulk update call as the policy issues it.
InitCalls == Init \/ InitPolicy

NextCalls ==
    \/ ResolveRaises
    \/ ResolveHttpError
    \/ ResolveOk
    \/ Decide
    \/ UpdateRaises
    \/ UpdateHttpError
    \/ UpdateOk

SpecCalls == InitCalls /\ [][NextCalls]_vars

\* ------------------------------------------------------------------- main

\* A numeric cell of the snapshot: text that denotes `value` (a numerator over
\* Den), written with or without thousands separators and spaces, or text
\* that is no number at all.
Cell(value) == [value |-> value, separators |-> FALSE, garbage |-> FALSE]
CellWithSeparators(value) ==
    [value |-> value, separators |-> TRUE, garbage |-> FALSE]
GarbageCell == [value |-> 0, separators |-> FALSE, garbage |-> TRUE]

\* float(str(cell).strip().replace(',', '').replace(...)): the number, or
\* None when float() raises.
ParseFloat(cell) == IF cell.garbage THEN None ELSE Some(cell.value)

PlainRow(code) ==
    [sku |-> code,
     current_stock |-> Cell(Den),
     expected_arrival |-> Cell(0),
     expected_shipment |-> Cell(0),
     available_for_sale |-> CellWithSeparators(Den)]

\* Row p of a snapshot: like the others, or without a product code, or with
\* a quantity that is no number, or a second row for product code 1.
SpecialRow(p, kind) ==
    IF kind = "blank" THEN [PlainRow(p) EXCEPT !.sku = 0]
    ELSE IF kind = "garbage"
    THEN [PlainRow(p) EXCEPT !.expected_arrival = GarbageCell]
    ELSE IF kind = "duplicate"
    THEN [PlainRow(1) EXCEPT !.current_stock = Cell(-Den),
                             !.available_for_sale = Cell(-1)]
    ELSE PlainRow(p)

RowKinds == {"plain", "blank", "garbage", "duplicate"}

Snapshot(total, p, kind) ==
    [i \in 1..total |-> IF i = p THEN SpecialRow(i, kind) ELSE PlainRow(i)]

\* The catalogues main() runs against: nothing matches, or product code 1
\* has one active variant.
MainCatalogues == {<<>>, <<ShopVariant(1, 1, FALSE, 1)>>}

BatchEndOneTooFar(start, total) == Min(start + BATCH_SIZE + 1, total)

\* batch_end of the chunk that starts at row index `start` (0-based).
BatchEnd(start, total) == Min(start + BATCH_SIZE, total)

\* A row survives when it has a product code and its four quantities parse.
Survives(row) ==
    /\ row.sku # 0
    /\ ParseFloat(row.current_stock) # None
    /\ ParseFloat(row.expected_arrival) # None
    /\ ParseFloat(row.expected_shipment) # None
    /\ ParseFloat(row.available_for_sale) # None

StockOf(row) ==
    [current_stock |-> ParseFloat(row.current_stock)[1],
     expected_arrival |-> ParseFloat(row.expected_arrival)[1],
     expected_shipment |-> ParseFloat(row.expected_shipment)[1],
     available_for_sale |-> ParseFloat(row.available_for_sale)[1]]

RECURSIVE ChunkSkus(_, _, _)
\* batch_skus of the rows with 0-based index in [from, to).
ChunkSkus(rows, from, to) ==
    IF from >= to THEN <<>>
    ELSE (IF Survives(rows[from + 1]) THEN <<rows[from + 1].sku>> ELSE <<>>)
         \o ChunkSkus(rows, from + 1, to)

\* The last surviving row with product code `code` among rows [from, to).
LastRow(rows, from, to, code) ==
    LET idx == {i \in (from + 1)..to :
                    Survives(rows[i]) /\ rows[i].sku = code}
    IN  rows[CHOOSE i \in idx : \A j \in idx : j <= i]

\* stock_data_dict of the rows with 0-based index in [from, to).
ChunkStock(rows, from, to) ==
    [code \in Range(ChunkSkus(rows, from, to)) |->
        StockOf(LastRow(rows, from, to, code))]

\* main() after the snapshot was downloaded and read.
InitMain ==
    /\ \E total \in 0..MaxRows, p \in 1..MaxRows, kind \in RowKinds :
          /\ p <= total \/ (p = 1 /\ kind = "plain")
          /\ kind = "plain" => p = 1
          /\ kind = "duplicate" => p > 1
          /\ df = Snapshot(total, p, kind)
    /\ shop \in MainCatalogues
    /\ batch_start = 0
    /\ mpc = "loop"
    /\ sleeps = 0
    /\ resolver_calls = <<>>
    /\ main_results = <<>>
    /\ skus = <<>>
    /\ stock_data_dict = <<>>
    /\ pc = "idle"
    /\ attempt = 0
    /\ waits = <<>>
    /\ failure = "none"
    /\ resolve_status = "pending"
    /\ variants = None
    /\ updates = <<>>
    /\ results = <<>>
    /\ mutation = <<>>
    /\ update_status = "none"
    /\ update_response = <<>>

SleepSkipped(taken) == taken

\* time.sleep(5) at the end of a pass of the loop.
Sleep(taken) == taken + 1

\* One pass of the loop over the chunks, up to the call of process_sku_batch:
\* the chunk's rows are normalised, and a chunk without a surviving row only
\* waits for the pacing delay.
MainBatch ==
    /\ mpc = "loop"
    /\ batch_start < Len(df)
    /\ LET batch_end == BatchEnd(batch_start, Len(df))
           batch_skus == ChunkSkus(df, batch_start, batch_end)
       IN  IF batch_skus # <<>>
           THEN /\ skus' = batch_skus
                /\ stock_data_dict' = ChunkStock(df, batch_start, batch_end)
                /\ resolver_calls' = Append(resolver_calls, batch_skus)
                /\ pc' = "resolve"
                /\ mpc' = "call"
                /\ resolve_status' = "pending"
                /\ variants' = None
                /\ updates' = <<>>
                /\ results' = <<>>
                /\ UNCHANGED <<batch_start, sleeps>>
           ELSE /\ batch_start' = batch_start + BATCH_SIZE
                /\ sleeps' = Sleep(sleeps)
                /\ UNCHANGED <<skus, stock_data_dict, resolver_calls, pc, mpc,
                               resolve_status, variants, updates, results>>
    /\ UNCHANGED <<df, shop, attempt, waits, failure, mutation, update_status,
                   update_response, main_results>>

AccumulateLastBatchOnly(all_results, batch_results) == batch_results

\* results.extend(batch_results)
Accumulate(all_results, batch_results) == all_results \o batch_results

\* process_sku_batch returned: its records are accumulated, and after the
\* pacing delay the loop goes on with the next chunk.
MainCollect ==
    /\ mpc = "call"
    /\ pc = "done"
    /\ main_results' = Accumulate(main_results, results)
    /\ sleeps' = Sleep(sleeps)
    /\ batch_start' = batch_start + BATCH_SIZE
    /\ mpc' = "loop"
    /\ pc' = "idle"
    /\ UNCHANGED <<df, shop, skus, stock_data_dict, attempt, waits, failure,
                   resolve_status,
                   variants, updates, results, mutation, update_status,
                   update_response, resolver_calls>>

\* The loop is over: the report is built from the accumulated records.
MainReport ==
    /\ mpc = "loop"
    /\ batch_start >= Len(df)
    /\ mpc' = "reported"
    /\ UNCHANGED <<batchVars, df, batch_start, sleeps, resolver_calls,
                   main_results>>

NextMain ==
    \/ MainBatch
    \/ ResolveRaises
    \/ ResolveHttpError
    \/ ResolveOk
    \/ Decide
    \/ MainCollect
    \/ MainReport

SpecMain == InitMain /\ [][NextMain]_vars

\* KeyboardInterrupt: it is raised wherever the run is, in the loop or inside
\* process_sku_batch, whose `except Exception` does not catch it; main's
\* `except KeyboardInterrupt` returns at once, before the report.
Interrupt ==
    /\ mpc \in {"loop", "call"}
    /\ mpc' = "interrupted"
    /\ UNCHANGED <<batchVars, df, batch_start, sleeps, resolver_calls,
                   main_results>>

\* main() under external interrupts.
NextRun ==
    \/ MainBatch
    \/ ResolveRaises
    \/ ResolveHttpError
    \/ ResolveOk
    \/ Decide
    \/ MainCollect
    \/ MainReport
    \/ Interrupt

SpecRun == InitMain /\ [][NextRun]_vars

\* The run of main(), and process_sku_batch as the policy drives it up to
\* the bulk update call.
InitSeq == InitMain \/ InitPolicy

NextSeq ==
    \/ MainBatch
    \/ ResolveRaises
    \/ ResolveHttpError
    \/ ResolveOk
    \/ Decide
    \/ UpdateRaises
    \/ UpdateHttpError
    \/ UpdateOk
    \/ MainCollect
    \/ MainReport

SpecSeq == InitSeq /\ [][NextSeq]_vars

\* -------------------------------------------- runs against the platform

\* Committed quantities of a variant at the target location.
CommittedVals == {0, 1}

\* Stock records whose candidate is current_stock: half a unit or a unit.
RemoteStockRecords ==
    [current_stock : {1, Den},
     expected_arrival : {0},
     expected_shipment : {0},
     available_for_sale : {Den}]

\* The catalogues of n active variants of product code 1, each with an
\* available and a committed quantity.
RECURSIVE RemoteCatalogues(_)
RemoteCatalogues(n) ==
    IF n = 0 THEN {<<>>}
    ELSE {Append(c, [ShopVariant(n, 1, FALSE, a) EXCEPT !.committed = k]) :
            c \in RemoteCatalogues(n - 1), a \in RemoteAvailVals,
            k \in CommittedVals}

\* What the resolver hands over for the catalogue, with the archived flag.
FullNodes(catalogue) == [i \in DOMAIN catalogue |-> FullNode(catalogue[i])]

\* A run over a snapshot of one row: process_sku_batch([1], ...) has the
\* variants of product code 1 as the platform holds them.
InitRemote ==
    /\ skus = <<1>>
    /\ stock_data_dict \in [{1} -> RemoteStockRecords]
    /\ shop \in UNION {RemoteCatalogues(n) : n \in 1..MaxVariants}
    /\ variants = Some(FullNodes(shop))
    /\ pc = "decide"
    /\ attempt = 0
    /\ waits = <<>>
    /\ failure = "none"
    /\ resolve_status = "matched"
    /\ updates = <<>>
    /\ results = <<>>
    /\ mutation = <<>>
    /\ update_status = "none"
    /\ update_response = <<>>
    /\ df = <<>>
    /\ batch_start = 0
    /\ mpc = "idle"
    /\ sleeps = 0
    /\ resolver_calls = <<skus>>
    /\ main_results = <<>>

\* The batch has returned and the program is run again at once over the
\* same snapshot: its batch resolves to the variants as they are now.
SecondRun ==
    /\ pc = "done"
    /\ Len(resolver_calls) = 1
    /\ resolver_calls' = Append(resolver_calls, skus)
    /\ main_results' = Accumulate(main_results, results)
    /\ variants' = Some(FullNodes(shop))
    /\ resolve_status' = "matched"
    /\ updates' = <<>>
    /\ results' = <<>>
    /\ mutation' = <<>>
    /\ update_status' = "none"
    /\ update_response' = <<>>
    /\ pc' = "decide"
    /\ UNCHANGED <<skus, stock_data_dict, shop, attempt, waits, failure, df,
                   batch_start, mpc, sleeps>>

NextRemote ==
    \/ Decide
    \/ UpdateRaises
    \/ UpdateHttpError
    \/ UpdateOk
    \/ SecondRun

SpecRemote == InitRemote /\ [][NextRemote]_vars

\* ------------------------------------------------------------- properties

\* The variants the remote platform holds for the SKUs of the batch, each
\* with the true `archived` flag of its product.
RemoteMatches ==
    IF shop # <<>> THEN SelectSeq2(shop, Range(skus))
    ELSE IF variants # None THEN variants[1]
    ELSE <<>>

\* process_sku_batch has gone through its decisions for a resolved batch and
\* has not thrown them away.
DecisionsMade ==
    /\ pc \in {"update", "done"}
    /\ resolve_status = "matched"
    /\ update_status # "raised"

\* process_sku_batch has returned the records of a resolved batch, those of
\* its update requests included.
BatchReturned ==
    /\ pc = "done"
    /\ resolve_status = "matched"
    /\ update_status \in {"none", "ok"}

UpdateFor(id) == \E i \in DOMAIN updates : updates[i].variant_id = id

RecordsFor(id) == {i \in DOMAIN results : results[i].variant_id = Some(id)}

\* Rule 2 of the policy: the candidate c of stock record sd.
CandidateRule(sd, c) ==
    /\ (sd.expected_arrival = sd.expected_shipment /\ sd.current_stock >= 0)
          => c = sd.current_stock
    /\ (sd.expected_arrival = sd.expected_shipment /\ sd.current_stock < 0)
          => c = 0
    /\ (sd.expected_arrival # sd.expected_shipment
           /\ sd.available_for_sale >= 0)
          => c = sd.available_for_sale
    /\ (sd.expected_arrival # sd.expected_shipment
           /\ sd.available_for_sale < 0)
          => c = 0
    /\ c >= 0

ClampedCandidate(sd) == CHOOSE c \in -Den..(2 * Den) : CandidateRule(sd, c)

BothZeroApplies(v) ==
    stock_data_dict[v.sku].available_for_sale <= 0 /\ v.available = 0

AlreadyMatches(v) ==
    v.available * Den = ClampedCandidate(stock_data_dict[v.sku])

\* C1: every resolved variant whose product is archived gets a result record
\* with outcome skip, reason archived and no new_available, whatever the stock
\* quantities are, and no update request is issued for it.
C1_ArchivedAlwaysSkipped ==
    DecisionsMade =>
        \A k \in DOMAIN RemoteMatches :
            LET v == RemoteMatches[k]
            IN  v.product.archived =>
                  /\ \E i \in RecordsFor(v.id) :
                        /\ results[i].status = "skipped"
                        /\ results[i].message = "Product is archived in Shopify"
                        /\ results[i].new_available = None
                  /\ ~UpdateFor(v.id)

\* The candidates process_sku_batch carries for variant id: in its result
\* records and in its update requests.
CarriedCandidates(id) ==
    {results[i].new_available[1] :
        i \in {j \in RecordsFor(id) : results[j].new_available # None}}
    \cup {updates[i].available :
        i \in {j \in DOMAIN updates : updates[j].variant_id = id}}

\* C2: the candidate new_available of a stock record is current_stock when
\* expected_arrival equals expected_shipment and available_for_sale otherwise,
\* a negative one replaced by 0: every decision of an active variant carries
\* exactly that candidate.
C2_CandidateClamped ==
    DecisionsMade =>
        \A k \in DOMAIN RemoteMatches :
            LET v == RemoteMatches[k]
            IN  ~v.product.archived =>
                  /\ CarriedCandidates(v.id) # {}
                  /\ \A c \in CarriedCandidates(v.id) :
                        CandidateRule(stock_data_dict[v.sku], c)

\* C2, its case: a negative current_stock with no pending movement was
\* clamped to 0 and written as the new quantity.
C2_Witness ==
    /\ pc = "done"
    /\ \E i \in DOMAIN results :
          /\ results[i].status = "updated"
          /\ results[i].new_available = Some(0)
          /\ stock_data_dict[results[i].sku].current_stock < 0
          /\ stock_data_dict[results[i].sku].expected_arrival =
                stock_data_dict[results[i].sku].expected_shipment

\* C3: an active resolved variant with available_for_sale <= 0 in the
\* snapshot and 0 available remotely is skipped as "both zero" and gets no
\* update request, even when its candidate is not 0.
C3_BothZeroSkipped ==
    DecisionsMade =>
        \A k \in DOMAIN RemoteMatches :
            LET v == RemoteMatches[k]
            IN  (~v.product.archived /\ BothZeroApplies(v)) =>
                  /\ \E i \in RecordsFor(v.id) :
                        /\ results[i].status = "skipped"
                        /\ results[i].message =
                              "Both CSV and Shopify show 0 stock"
                  /\ ~UpdateFor(v.id)

\* C4: an active resolved variant the both-zero rule leaves alone and whose
\* available quantity equals the clamped candidate is skipped as "already
\* matches" and gets no update request.
C4_AlreadyMatchesSkipped ==
    DecisionsMade =>
        \A k \in DOMAIN RemoteMatches :
            LET v == RemoteMatches[k]
            IN  (~v.product.archived /\ ~BothZeroApplies(v)
                   /\ AlreadyMatches(v)) =>
                  /\ \E i \in RecordsFor(v.id) :
                        /\ results[i].status = "skipped"
                        /\ results[i].message =
                              "Shopify already matches calculated value"
                  /\ ~UpdateFor(v.id)

\* C5: an update request exists for a resolved variant exactly when it is
\* active, the both-zero rule does not apply and its available quantity
\* differs from the clamped candidate; the request carries that candidate;
\* and there is no other update request.
C5_UpdateExactlyWhenNeeded ==
    DecisionsMade =>
        /\ \A k \in DOMAIN RemoteMatches :
              LET v == RemoteMatches[k]
              IN  /\ UpdateFor(v.id) <=>
                        (~v.product.archived /\ ~BothZeroApplies(v)
                           /\ ~AlreadyMatches(v))
                  /\ \A i \in DOMAIN updates :
                        updates[i].variant_id = v.id =>
                           updates[i].available =
                              ClampedCandidate(stock_data_dict[v.sku])
        /\ \A i \in DOMAIN updates :
              \E k \in DOMAIN RemoteMatches :
                  RemoteMatches[k].id = updates[i].variant_id

\* C6: a SKU that resolves to N > 1 variants has N result records, every one
\* flagged multiple_variants with variant_count N and the list of the N
\* sibling product titles.
C6_AllSiblingsFlagged ==
    BatchReturned =>
        \A sku \in Range(skus) :
            LET sv == SkuVariants(RemoteMatches, sku)
                rs == {i \in DOMAIN results : results[i].sku = sku}
            IN  Len(sv) > 1 =>
                  /\ Cardinality(rs) = Len(sv)
                  /\ \A i \in rs :
                        /\ results[i].multiple_variants
                        /\ results[i].variant_count = Len(sv)
                        /\ results[i].variant_products =
                              [k \in 1..Len(sv) |-> sv[k].product.title]

\* C7: a status-200 response to a bulk mutation of n update requests gives
\* exactly n records in request order; record i is an error carrying the
\* field-level errors exactly when the sub-result under alias i has them, and
\* is "updated" otherwise.
C7_PerItemOutcome ==
    (pc = "done" /\ update_status = "ok") =>
        LET n == Len(updates)
            base == Len(results) - n
        IN  /\ Len(update_response) = n
            /\ base >= 0
            /\ \A i \in 1..base :
                  /\ results[i].status # "updated"
                  /\ results[i].message # "userErrors"
            /\ \A i \in 1..n :
                  LET r == results[base + i]
                  IN  /\ r.sku = updates[i].sku
                      /\ r.variant_id = Some(updates[i].variant_id)
                      /\ r.status = "error" <=>
                            update_response[i] = "userErrors"
                      /\ r.status = "error" => r.message = "userErrors"
                      /\ r.status # "error" => r.status = "updated"

\* C7, its case: of two sub-mutations one came back with field-level errors
\* and the other without.
C7_Witness ==
    /\ pc = "done"
    /\ update_status = "ok"
    /\ Len(updates) >= 2
    /\ \E i, j \in DOMAIN update_response :
          /\ update_response[i] = "userErrors"
          /\ update_response[j] = "ok"
    /\ \E i \in DOMAIN results : results[i].status = "updated"
    /\ \E i \in DOMAIN results : results[i].message = "userErrors"

\* The surviving SKUs of the whole snapshot, in file order.
Survivors == ChunkSkus(df, 0, Len(df))

CeilDiv(a, b) == (a + b - 1) \div b

\* The surviving SKUs cut into full batches: all of BATCH_SIZE, the last
\* possibly shorter.
FullBatches(surv) ==
    [b \in 1..CeilDiv(Len(surv), BATCH_SIZE) |->
        SubSeq(surv, (b - 1) * BATCH_SIZE + 1,
               Min(b * BATCH_SIZE, Len(surv)))]

\* C8 as stated: the surviving SKUs are cut into contiguous batches of
\* exactly BATCH_SIZE (the last possibly shorter), one resolver call each, so
\* k surviving SKUs cause ceil(k / BATCH_SIZE) calls.
C8_SurvivorsInFullBatches ==
    mpc = "reported" => resolver_calls = FullBatches(Survivors)

\* The surviving SKUs of the c-th chunk of BATCH_SIZE rows.
RowChunk(c) ==
    ChunkSkus(df, (c - 1) * BATCH_SIZE, Min(c * BATCH_SIZE, Len(df)))

NonEmptyChunks ==
    {c \in 1..CeilDiv(Len(df), BATCH_SIZE) : RowChunk(c) # <<>>}

\* The b-th smallest member of a set of numbers.
Nth(S, b) == CHOOSE c \in S : Cardinality({d \in S : d < c}) = b - 1

RECURSIVE Flatten(_)
Flatten(ss) == IF ss = <<>> THEN <<>> ELSE Head(ss) \o Flatten(Tail(ss))

\* C8 amended: the rows are cut, in file order, into contiguous chunks of
\* BATCH_SIZE rows (the last possibly shorter); the surviving SKUs of a chunk
\* make one resolver call and a chunk without any makes none.  So a call
\* carries 1..BATCH_SIZE SKUs, the calls together carry the surviving SKUs in
\* file order, and when every row survives k SKUs cause ceil(k / BATCH_SIZE)
\* calls, all but the last of BATCH_SIZE SKUs.
C8_RowChunks ==
    /\ \A b \in DOMAIN resolver_calls :
          Len(resolver_calls[b]) \in 1..BATCH_SIZE
    /\ mpc = "reported" =>
          /\ Len(resolver_calls) = Cardinality(NonEmptyChunks)
          /\ \A b \in DOMAIN resolver_calls :
                resolver_calls[b] = RowChunk(Nth(NonEmptyChunks, b))
          /\ Flatten(resolver_calls) = Survivors
          /\ (\A i \in DOMAIN df : Survives(df[i])) =>
                resolver_calls = FullBatches(Survivors)

\* C8, its case: a row of the first chunk did not survive, so the first of
\* two resolver calls carried fewer than BATCH_SIZE SKUs.
C8_Witness ==
    /\ mpc = "reported"
    /\ Len(resolver_calls) = 2
    /\ Len(resolver_calls[1]) = BATCH_SIZE - 1
    /\ Len(Survivors) > BATCH_SIZE

\* C9: the resolver yields none only when the remote call failed and an empty
\* list when the call succeeded without a match; a batch whose resolve call
\* failed is not reported as "not found".
C9_FailureIsNotEmpty ==
    /\ (pc \in {"decide", "done"} /\ resolve_status = "empty")
          => variants = Some(<<>>)
    /\ (pc \in {"decide", "done"} /\ variants = None)
          => resolve_status \in {"http_error", "raised"}
    /\ (pc = "done" /\ resolve_status \in {"http_error", "raised"})
          => \A i \in DOMAIN results :
                results[i].message # "SKU not found in Shopify"

\* C10: every SKU of the batch without a resolved variant gets an error
\* record "not found" whose remote-side fields are all null, and the other
\* SKUs of the batch are decided all the same.
C10_NotFoundPerSku ==
    (pc = "done" /\ resolve_status \in {"matched", "empty"}
       /\ update_status \in {"none", "ok"}) =>
        LET missing == {n \in DOMAIN skus :
                            SkuVariants(RemoteMatches, skus[n]) = <<>>}
        IN  missing # {} =>
              /\ \A n \in missing :
                    \E i \in DOMAIN results :
                        /\ results[i].sku = skus[n]
                        /\ results[i].status = "error"
                        /\ results[i].message = "SKU not found in Shopify"
                        /\ results[i].shopify_available = None
                        /\ results[i].shopify_committed = None
                        /\ results[i].new_available = None
                        /\ results[i].product_title = NoneStr
                        /\ results[i].variant_id = None
                        /\ results[i].product_handle = None
                        /\ results[i].product_id = None
              /\ \A k \in DOMAIN RemoteMatches :
                    RecordsFor(RemoteMatches[k].id) # {}


\* C11: a remote call (resolve or bulk update) is attempted at most 5 times;
\* an attempt that raises before the 5th is followed by the next attempt of
\* the same call with the batch's state untouched (the pipeline is not
\* restarted), and the call is abandoned only when the 5th attempt raised,
\* which ends the batch with one error record per SKU.
C11_BoundedRetry ==
    [][/\ attempt' <= MaxAttempts - 1
       /\ (attempt' # attempt /\ attempt' # 0)
             => /\ attempt' = attempt + 1
                /\ pc \in {"resolve", "update"}
                /\ pc' = pc
                /\ UNCHANGED <<skus, stock_data_dict, variants, updates,
                               results, resolve_status, update_status>>
       /\ \/ resolve_status # "raised" /\ resolve_status' = "raised"
          \/ update_status # "raised" /\ update_status' = "raised"
          => /\ attempt = MaxAttempts - 1
             /\ pc' = "done"
             /\ results' = AllException(skus, stock_data_dict, "RetryError")
      ]_vars

\* A bulk update call was abandoned after its 5th attempt.
C11_Witness ==
    /\ pc = "done"
    /\ update_status = "raised"
    /\ results = AllException(skus, stock_data_dict, "RetryError")

\* C12: the sleeps of one retried call start at 4 and double after each
\* failed attempt, never above 60: before attempts 2, 3, 4 and 5 they are
\* 4, 8, 16 and 32.
C12_DoublingWaits ==
    \A k \in DOMAIN waits : waits[k] = Min(WAIT_MIN * 2 ^ (k - 1), WAIT_MAX)

\* C13: a permanent failure of a remote call (malformed query or response,
\* authentication failure) is never retried; only a transient failure is
\* followed by a further attempt.
C13_PermanentNeverRetried ==
    attempt > 0 => failure = "transient"

\* The records of main_results that belong to SKU s.
RunRecords(s) == {i \in DOMAIN main_results : main_results[i].sku = s}

\* C14: however a batch ends (resolver failure, retries exhausted, malformed
\* variant data, update failure), the run goes on with the next batch, the
\* records accumulated so far are kept, and the run ends only after every
\* chunk with a surviving SKU was processed, with records for all of them.
C14_FailuresIsolated ==
    [][/\ Len(main_results') >= Len(main_results)
       /\ SubSeq(main_results', 1, Len(main_results)) = main_results
       /\ (pc # "done" /\ pc' = "done") => mpc' = "call"
       /\ (mpc = "call" /\ mpc' # "call")
             => /\ mpc' = "loop"
                /\ SubSeq(main_results', Len(main_results) + 1,
                          Len(main_results')) = results
       /\ mpc' = "reported"
             => /\ Len(resolver_calls') = Cardinality(NonEmptyChunks)
                /\ \A b \in DOMAIN resolver_calls' :
                      \A s \in Range(resolver_calls'[b]) :
                          \E i \in DOMAIN main_results' :
                              main_results'[i].sku = s
      ]_vars

\* C14, its case: the first of two batches failed after its retries were
\* exhausted, and the run reported both batches.
C14_Witness ==
    /\ mpc = "reported"
    /\ Len(resolver_calls) = 2
    /\ main_results[1].message = "RetryError"
    /\ RunRecords(BATCH_SIZE + 1) # {}

\* C15: an external interrupt takes effect only between batches: when the
\* run has stopped on one, no batch is in progress and the records of every
\* batch that was started are accumulated.
C15_InterruptBetweenBatches ==
    mpc = "interrupted" =>
        /\ pc = "idle"
        /\ \A b \in DOMAIN resolver_calls :
              \A s \in Range(resolver_calls[b]) : RunRecords(s) # {}

\* How often SKU s was handed to the resolver during the run.
TimesResolved(s) ==
    LET all == Flatten(resolver_calls)
    IN  Cardinality({i \in DOMAIN all : all[i] = s})

\* The stock record of the last surviving row of the whole file for SKU s.
LastRowStock(s) == StockOf(LastRow(df, 0, Len(df), s))

\* C16: a SKU on several rows has one stock record, that of its last row
\* wherever the rows lie: every record about it carries the last row's
\* quantities, and it is resolved once.
C16_LastRowWins ==
    mpc = "reported" =>
        \A s \in Range(Survivors) :
            /\ TimesResolved(s) = 1
            /\ \A i \in RunRecords(s) :
                  /\ main_results[i].csv_stock
                        = LastRowStock(s).current_stock
                  /\ main_results[i].csv_available
                        = LastRowStock(s).available_for_sale

\* C17: batches are processed one after another in file order with at most
\* one remote call in flight: the bulk update call is issued only after the
\* resolve call of its batch returned variants, and the resolve call of a
\* batch is issued only when no call is in flight, the batch before it has
\* returned and was collected, and the pacing delay after every earlier
\* chunk has elapsed.
C17_Sequential ==
    [][/\ (pc # "update" /\ pc' = "update")
             => /\ pc = "decide"
                /\ variants # None
                /\ resolve_status = "matched"
       /\ (pc # "resolve" /\ pc' = "resolve")
             => /\ pc = "idle"
                /\ mpc = "loop"
                /\ Len(main_results) >= Len(resolver_calls)
                /\ resolver_calls' = Append(resolver_calls,
                      RowChunk(Nth(NonEmptyChunks, Len(resolver_calls) + 1)))
                /\ sleeps = batch_start \div BATCH_SIZE
                /\ sleeps >= Len(resolver_calls)
       /\ (pc = "resolve" /\ pc' # "resolve") => pc' \in {"decide", "done"}
       /\ (pc = "update" /\ pc' # "update") => pc' = "done"
      ]_vars

\* C17, its case: the resolve call of a second batch is in flight, after the
\* first batch returned and the pacing delay was taken.
C17_Witness ==
    /\ pc = "resolve"
    /\ Len(resolver_calls) = 2
    /\ Len(main_results) >= BATCH_SIZE - 1
    /\ sleeps = 1

\* The policy's outcome for resolved variant v is update.
NeedsUpdate(v) ==
    ~v.product.archived /\ ~BothZeroApplies(v) /\ ~AlreadyMatches(v)

\* The resolved variants whose outcome is update.
UpdateDecisions == {k \in DOMAIN RemoteMatches : NeedsUpdate(RemoteMatches[k])}

\* q is numerator / Den rounded to a nearest integer.
Nearest(q, numerator) ==
    /\ 2 * (q * Den - numerator) <= Den
    /\ 2 * (numerator - q * Den) <= Den

\* Mutation m addresses its sub-mutations by the aliases 0..n-1 and holds
\* one sub-mutation for every update decision of the batch, and no other.
MutationCovers(m) ==
    /\ Len(m) = Cardinality(UpdateDecisions)
    /\ \A i \in DOMAIN m : m[i].alias = i - 1
    /\ \A k \in UpdateDecisions :
          LET v == RemoteMatches[k]
          IN  \E i \in DOMAIN m :
                 /\ m[i].inventoryItemId = v.inventoryItem
                 /\ Nearest(m[i].quantity,
                            ClampedCandidate(stock_data_dict[v.sku]))

\* C18: per batch the bulk update is invoked at most once (its retries
\* aside), exactly when at least one decision of the batch is an update,
\* and its one mutation holds every update decision of the batch under the
\* positional aliases 0..n-1.
C18_OneBulkUpdate ==
    [][/\ (pc = "decide" /\ pc' # "decide")
             => (pc' = "update" <=> UpdateDecisions # {})
       /\ pc' = "update" => pc \in {"decide", "update"}
       /\ (pc = "update" /\ pc' # "update")
             => (pc' = "done" /\ update_status' # "none")
       /\ (pc = "update" /\ (attempt = 0 \/ mutation' # mutation))
             => MutationCovers(mutation')
       /\ (pc # "update" /\ pc' = "done") => (update_status' = "none"
                                               /\ mutation' = <<>>)
      ]_vars

\* C18, its case: two update decisions went out in one mutation, under the
\* aliases 0 and 1.
C18_Witness ==
    /\ pc = "done"
    /\ update_status = "ok"
    /\ Cardinality(UpdateDecisions) = 2
    /\ Len(mutation) = 2
    /\ mutation[1].alias = 0
    /\ mutation[2].alias = 1

\* C19: a record has outcome updated only if the remote platform applied
\* its sub-mutation: the response holds, under the alias of its update
\* request, a sub-result without field-level errors.
C19_UpdatedOnlyIfApplied ==
    \A i \in DOMAIN results :
        results[i].status = "updated" =>
            /\ update_status = "ok"
            /\ \E j \in DOMAIN updates :
                  /\ Some(updates[j].variant_id) = results[i].variant_id
                  /\ update_response[j] = "ok"

\* C20: every SKU handed to a batch appears in at least one result record
\* the batch returns, whatever the resolver and the bulk update call return.
C20_EverySkuReported ==
    pc = "done" =>
        \A s \in Range(skus) : \E i \in DOMAIN results : results[i].sku = s

\* The variant of the remote catalogue with identity id.
RemoteVariant(id) == shop[CHOOSE k \in DOMAIN shop : shop[k].id = id]

\* C21: after a sub-mutation for a variant succeeded, the variant's remote
\* available quantity is the decision's new_available (as rounded for
\* submission) whatever its committed quantity is, and a further run over
\* the same snapshot issues no write for a variant that was written.
C21_WriteConverges ==
    /\ (pc = "done" /\ update_status = "ok") =>
          \A i \in DOMAIN updates :
              update_response[i] = "ok" =>
                 Nearest(RemoteVariant(updates[i].variant_id).available,
                         updates[i].available)
    /\ (Len(resolver_calls) >= 2 /\ pc \in {"update", "done"}
          /\ update_status # "raised") =>
          \A k \in DOMAIN variants[1] :
              LET v == variants[1][k]
              IN  (/\ \E i \in DOMAIN main_results :
                         /\ main_results[i].variant_id = Some(v.id)
                         /\ main_results[i].status = "updated"
                   /\ Nearest(v.available + v.committed,
                              ClampedCandidate(stock_data_dict[v.sku])))
                    => ~UpdateFor(v.id)

\* C22: no write is submitted whose quantity, rounded for submission, is the
\* variant's current available quantity.
C22_NoNoOpWrite ==
    \A i \in DOMAIN updates :
        Round(updates[i].available) # updates[i].current_available

\* The quantity the batch's update requests submit for variant id.
Submitted(id, q) ==
    \E i \in DOMAIN updates :
        /\ updates[i].variant_id = id
        /\ Nearest(q, updates[i].available)

\* Remote variant w is variant v as the run resolved it, untouched.
Untouched(v, w) == w = v

\* Remote variant w is variant v after one application of the sub-mutation
\* for it: its on-hand quantity is the submitted one, nothing else changed.
AppliedOnce(v, w) ==
    /\ Submitted(v.id, w.available + w.committed)
    /\ w = [v EXCEPT !.available = w.available]

\* C23: retrying the bulk mutation is safe: whatever attempts were applied
\* with their response lost before the call was attempted again, every
\* remote variant is as the run resolved it or as after one application of
\* its sub-mutation, and after a response without errors every variant with
\* an update request is as after one application.
C23_RetrySafe ==
    (pc \in {"update", "done"} /\ Len(shop) = Len(variants[1])) =>
        /\ \A k \in DOMAIN shop :
              \/ Untouched(variants[1][k], shop[k])
              \/ AppliedOnce(variants[1][k], shop[k])
        /\ (pc = "done" /\ update_status = "ok"
              /\ \A i \in DOMAIN update_response : update_response[i] = "ok")
              => \A k \in DOMAIN shop :
                    UpdateFor(shop[k].id)
                       => AppliedOnce(variants[1][k], shop[k])

\* C23, its case: an attempt of the bulk mutation was applied remotely with
\* its response lost, and the call is being attempted for the third time.
C23_Witness ==
    /\ pc = "update"
    /\ attempt >= 2
    /\ failure = "transient"
    /\ \E k \in DOMAIN shop :
          /\ ~Untouched(variants[1][k], shop[k])
          /\ AppliedOnce(variants[1][k], shop[k])

=============================================================================
